---- MODULE Spec2Model ----
(***************************************************************************)
(* A model of the spreadsheet crate (src/src/lib.rs): the table builder    *)
(* Spreadsheet::read with its per-field type inference, the numeric and    *)
(* symbolic Index implementations, and the three iterators RowIter,        *)
(* ColIter and Iter.                                                       *)
(*                                                                         *)
(* Text is a sequence of one-character strings, so that splitting and      *)
(* parsing are computed character by character.  The line source is a      *)
(* sequence of items, each either a line that was read or a read failure   *)
(* (io::Lines yields Result<String>).                                      *)
(***************************************************************************)
EXTENDS Integers, Sequences, FiniteSets

VARIABLES
    input,      \* the items the line source will yield, in order
    delimiter,  \* the delimiter character passed to read
    pc,         \* position inside read: "start", "loop", "done"
    contents,   \* number of items already taken from the line source
    headers,    \* read's local `headers`
    data,       \* read's local `data`
    rows,       \* read's local `rows`
    cols,       \* read's local `cols`
    result,     \* "none" while read runs, then "Ok" or "Err"
    sheet,      \* the Spreadsheet carried by Ok
    cursor,     \* the iterators the caller holds, by slot
    trace,      \* per slot: the position passed to iter, the next() results
    ret         \* the outcome of the caller's last indexing expression

vars == <<input, delimiter, pc, contents, headers, data, rows, cols,
          result, sheet, cursor, trace, ret>>

readVars == <<pc, contents, headers, data, rows, cols, result, sheet>>

-----------------------------------------------------------------------------
(* Bounds of the model. *)

\* longest input, in items of the line source (header included)
MaxLines == 3
\* calls of next() followed on one iterator
MaxCalls == 4
\* largest start position handed to iter(pos, dir)
MaxPos == 2
\* largest row or column number handed to an index expression
MaxIdx == 2
\* longest input of the type-inference specification
MaxInferLines == 2

-----------------------------------------------------------------------------
(* Text. *)

Digits == <<"0", "1", "2", "3", "4", "5", "6", "7", "8", "9">>

IsDigit(c) == \E d \in 1..10 : Digits[d] = c

\* char::to_digit(10) of a decimal digit
DigitVal(c) == (CHOOSE d \in 1..10 : Digits[d] = c) - 1

\* u8::to_ascii_lowercase on the letters the inputs use
Lower(c) ==
    CASE c = "N" -> "n"
      [] c = "A" -> "a"
      [] c = "I" -> "i"
      [] c = "F" -> "f"
      [] c = "E" -> "e"
      [] OTHER   -> c

LowerAll(s) == [i \in 1..Len(s) |-> Lower(s[i])]

\* str::split(char): the pieces between the delimiters; k delimiters give
\* k+1 pieces, and the empty string gives one empty piece.
RECURSIVE SplitFrom(_, _, _, _)
SplitFrom(s, d, i, piece) ==
    IF i > Len(s) THEN <<piece>>
    ELSE IF s[i] = d THEN <<piece>> \o SplitFrom(s, d, i + 1, <<>>)
    ELSE SplitFrom(s, d, i + 1, Append(piece, s[i]))

Split(s, d) == SplitFrom(s, d, 1, <<>>)

-----------------------------------------------------------------------------
(* Cells (enum Cell).  A Float carries the literal it was parsed from: the *)
(* binary rounding of f32 is not computed.                                 *)

CellString(s)  == [kind |-> "String",  val |-> s]
CellFloat(s)   == [kind |-> "Float",   val |-> s]
CellInteger(n) == [kind |-> "Integer", val |-> n]

I32_MAX == 2147483647
I32_MIN == -I32_MAX - 1

ParseErr   == [ok |-> FALSE, val |-> 0]
ParseOk(v) == [ok |-> TRUE, val |-> v]

\* The digit loop of str::parse::<i32>: for each character, checked_mul by
\* the radix, to_digit, then checked_add (checked_sub after a '-'); any
\* failure is an Err.
RECURSIVE I32Digits(_, _, _, _)
I32Digits(s, i, acc, positive) ==
    IF i > Len(s) THEN ParseOk(acc)
    ELSE IF ~IsDigit(s[i]) THEN ParseErr
    ELSE IF positive
         THEN IF acc > I32_MAX \div 10 THEN ParseErr
              ELSE IF acc * 10 > I32_MAX - DigitVal(s[i]) THEN ParseErr
              ELSE I32Digits(s, i + 1, acc * 10 + DigitVal(s[i]), positive)
         ELSE IF acc < -(I32_MAX \div 10) THEN ParseErr
              ELSE IF acc * 10 < I32_MIN + DigitVal(s[i]) THEN ParseErr
              ELSE I32Digits(s, i + 1, acc * 10 - DigitVal(s[i]), positive)

\* cell.parse::<i32>()
ParseI32(s) ==
    IF s = <<>> THEN ParseErr
    ELSE IF s[1] \in {"+", "-"} /\ Len(s) = 1 THEN ParseErr
    ELSE IF s[1] = "+" THEN I32Digits(s, 2, 0, TRUE)
    ELSE IF s[1] = "-" THEN I32Digits(s, 2, 0, FALSE)
    ELSE I32Digits(s, 1, 0, TRUE)

\* first position at or after i that holds no digit
RECURSIVE SkipDigits(_, _)
SkipDigits(s, i) ==
    IF i <= Len(s) /\ IsDigit(s[i]) THEN SkipDigits(s, i + 1) ELSE i

InfNan == { <<"n", "a", "n">>, <<"i", "n", "f">>,
            <<"i", "n", "f", "i", "n", "i", "t", "y">> }

\* The number scanner of str::parse::<f32>, on the text after the sign:
\* digits, an optional point with more digits, at least one digit in all,
\* then an optional exponent with at least one digit, and nothing after.
ScanNumber(s) ==
    LET a == SkipDigits(s, 1)
        b == IF a <= Len(s) /\ s[a] = "." THEN SkipDigits(s, a + 1) ELSE a
        nd == IF b > a THEN (a - 1) + (b - a - 1) ELSE a - 1
        hasExp == b <= Len(s) /\ s[b] \in {"e", "E"}
        c == IF hasExp /\ b + 1 <= Len(s) /\ s[b + 1] \in {"+", "-"}
             THEN b + 2 ELSE b + 1
        e == SkipDigits(s, c)
    IN  /\ nd >= 1
        /\ IF hasExp THEN e > c /\ e = Len(s) + 1 ELSE b = Len(s) + 1

\* cell.parse::<f32>().is_ok()
ParseF32(s) ==
    IF s = <<>> THEN FALSE
    ELSE LET body == IF s[1] \in {"+", "-"} THEN SubSeq(s, 2, Len(s)) ELSE s
         IN  /\ body # <<>>
             /\ ScanNumber(body) \/ LowerAll(body) \in InfNan

\* the if/else chain with the float test first
Infer_floatfirst(s) ==
    IF ParseF32(s) THEN CellFloat(s)
    ELSE IF ParseI32(s).ok THEN CellInteger(ParseI32(s).val)
    ELSE CellString(s)

\* The if/else chain of the row loop: i32, then f32, then String.
\* parse::<String>() cannot fail, so the final else is dead.
Infer(s) ==
    IF ParseI32(s).ok THEN CellInteger(ParseI32(s).val)
    ELSE IF ParseF32(s) THEN CellFloat(s)
    ELSE CellString(s)

-----------------------------------------------------------------------------
(* Spreadsheet::read. *)

Ok(line) == [ok |-> TRUE, line |-> line]
Failed   == [ok |-> FALSE, line |-> <<>>]

NoSheet == [headers |-> <<>>, data |-> <<>>, rows |-> 0, cols |-> 0]

\* a row is refused only when it is longer than the header
RowMismatch_longer(new_line, hdrs) == Len(new_line) > Len(hdrs)

\* new_line.len() != headers.len()
RowMismatch(new_line, hdrs) == Len(new_line) # Len(hdrs)

\* the row of cells built from one line
NewLine(line, d) ==
    LET fields == Split(line, d)
    IN  [i \in 1..Len(fields) |-> Infer(fields[i])]

\* File::open(filename)? fails: read returns the error at once.
ReadOpenFails ==
    /\ pc = "start"
    /\ pc' = "done"
    /\ result' = "Err"
    /\ UNCHANGED <<input, delimiter, contents, headers, data, rows, cols,
                   sheet, cursor, trace, ret>>

\* The file opens; `if let Some(Ok(header_line)) = contents.next()` fills
\* headers, and does nothing on None or Some(Err); then cols and rows are
\* set.
ReadHeader ==
    /\ pc = "start"
    /\ contents' = IF Len(input) > 0 THEN 1 ELSE 0
    /\ headers' = IF Len(input) > 0 /\ input[1].ok
                  THEN Split(input[1].line, delimiter)
                  ELSE <<>>
    /\ cols' = Len(headers')
    /\ rows' = 0
    /\ pc' = "loop"
    /\ UNCHANGED <<input, delimiter, data, result, sheet, cursor, trace, ret>>

\* One turn of `while let Some(Ok(cells)) = contents.next()`.
ReadRow ==
    /\ pc = "loop"
    /\ contents < Len(input)
    /\ input[contents + 1].ok
    /\ contents' = contents + 1
    /\ LET new_line == NewLine(input[contents + 1].line, delimiter)
       IN  IF RowMismatch(new_line, headers)
           THEN /\ result' = "Err"
                /\ pc' = "done"
                /\ UNCHANGED <<rows, data>>
           ELSE /\ rows' = rows + 1
                /\ data' = data \o new_line
                /\ UNCHANGED <<result, pc>>
    /\ UNCHANGED <<input, delimiter, headers, cols, sheet, cursor, trace, ret>>

\* The loop ends, on None or on Some(Err), and read returns Ok.
ReadReturn ==
    /\ pc = "loop"
    /\ IF contents < Len(input) THEN ~input[contents + 1].ok ELSE TRUE
    /\ contents' = IF contents < Len(input) THEN contents + 1 ELSE contents
    /\ sheet' = [headers |-> headers, data |-> data, rows |-> rows,
                 cols |-> cols]
    /\ result' = "Ok"
    /\ pc' = "done"
    /\ UNCHANGED <<input, delimiter, headers, data, rows, cols, cursor,
                   trace, ret>>

Read == ReadOpenFails \/ ReadHeader \/ ReadRow \/ ReadReturn

-----------------------------------------------------------------------------
(* The index layer. *)

Panic  == [panic |-> TRUE]
Got(v) == [panic |-> FALSE, val |-> v]

\* Vec indexing, data[off]: a panic when off is out of bounds
At(d, off) == IF off < Len(d) THEN Got(d[off + 1]) ELSE Panic

NotFound == -1

\* the last position that holds the name
Position_last(hdrs, name) ==
    IF \E i \in 1..Len(hdrs) : hdrs[i] = name
    THEN (CHOOSE i \in 1..Len(hdrs) :
              /\ hdrs[i] = name
              /\ \A j \in (i + 1)..Len(hdrs) : hdrs[j] # name) - 1
    ELSE NotFound

\* self.headers.iter().position(|i| i == index.col)
RECURSIVE PositionFrom(_, _, _)
PositionFrom(hdrs, name, i) ==
    IF i > Len(hdrs) THEN NotFound
    ELSE IF hdrs[i] = name THEN i - 1
    ELSE PositionFrom(hdrs, name, i + 1)

Position(hdrs, name) == PositionFrom(hdrs, name, 1)

\* Index<NumericIndex> for &Spreadsheet
IndexNumericRef(s, row, col) == At(s.data, row * s.cols + col)

\* Index<SymbolicIndex> for &Spreadsheet; unwrap() panics on None
IndexSymbolicRef(s, row, name) ==
    LET c == Position(s.headers, name)
    IN  IF c = NotFound THEN Panic ELSE At(s.data, row * s.cols + c)

\* Index<NumericIndex> for Spreadsheet
IndexNumericOwned(s, row, col) == At(s.data, row * s.cols + col)

\* Index<SymbolicIndex> for Spreadsheet
IndexSymbolicOwned(s, row, name) ==
    LET c == Position(s.headers, name)
    IN  IF c = NotFound THEN Panic ELSE At(s.data, row * s.cols + c)

NoRet == [op |-> "none", recv |-> "none", row |-> 0, col |-> 0,
          name |-> <<>>, out |-> Panic]

\* the column names the caller asks for
Names == { <<"x">>, <<"y">>, <<"q">> }

\* spread[NumericIndex { row, col }], on the table or on a reference to it
IndexNumeric ==
    /\ result = "Ok"
    /\ \E recv \in {"ref", "owned"}, row \in 0..MaxIdx, col \in 0..MaxIdx :
         ret' = [op |-> "numeric", recv |-> recv, row |-> row, col |-> col,
                 name |-> <<>>,
                 out |-> IF recv = "ref"
                         THEN IndexNumericRef(sheet, row, col)
                         ELSE IndexNumericOwned(sheet, row, col)]
    /\ UNCHANGED <<input, delimiter, readVars, cursor, trace>>

\* spread[SymbolicIndex::new(row, name)]
IndexSymbolic ==
    /\ result = "Ok"
    /\ \E recv \in {"ref", "owned"}, row \in 0..MaxIdx, name \in Names :
         ret' = [op |-> "symbolic", recv |-> recv, row |-> row, col |-> 0,
                 name |-> name,
                 out |-> IF recv = "ref"
                         THEN IndexSymbolicRef(sheet, row, name)
                         ELSE IndexSymbolicOwned(sheet, row, name)]
    /\ UNCHANGED <<input, delimiter, readVars, cursor, trace>>

-----------------------------------------------------------------------------
(* The iteration layer.  An iterator borrows the table's data, so next()   *)
(* takes the data as a parameter; the record holds the struct's other      *)
(* fields (a field the struct lacks is 0 or "none").                       *)

None    == [some |-> FALSE]
Some(v) == [some |-> TRUE, val |-> v]

\* slice::get
Get(d, off) == IF off < Len(d) THEN Some(d[off + 1]) ELSE None

Step(it, r) == [it |-> it, ret |-> r]

Slots == {1, 2}

NoCursor == [kind |-> "none", cols |-> 0, rows |-> 0, pos |-> 0,
             dir |-> "none"]
NoTrace  == [arg |-> 0, out |-> <<>>]

\* Spreadsheet::iter_rows
NewRowIter(s) ==
    [kind |-> "RowIter", cols |-> s.cols, rows |-> 0, pos |-> 0,
     dir |-> "none"]

\* Spreadsheet::iter_cols
NewColIter(s) ==
    [kind |-> "ColIter", cols |-> s.cols, rows |-> s.rows, pos |-> 0,
     dir |-> "none"]

\* Spreadsheet::iter: in Row mode the row number goes to the `rows` field
NewIter(s, p, dir) ==
    IF dir = "Column"
    THEN [kind |-> "Iter", cols |-> s.cols, rows |-> s.rows, pos |-> p,
          dir |-> dir]
    ELSE [kind |-> "Iter", cols |-> s.cols, rows |-> p, pos |-> 0,
          dir |-> dir]

\* a row iterator that starts over once it has run out
RowIter_next_restart(it, d) ==
    LET start == it.pos * it.cols
        end   == start + it.cols
    IN  IF end < Len(d) + 1
        THEN Step([it EXCEPT !.pos = it.pos + 1],
                  Some(SubSeq(d, start + 1, end)))
        ELSE Step([it EXCEPT !.pos = 0], None)

\* RowIter::next
RowIter_next(it, d) ==
    LET start == it.pos * it.cols
        end   == start + it.cols
    IN  IF end < Len(d) + 1
        THEN Step([it EXCEPT !.pos = it.pos + 1],
                  Some(SubSeq(d, start + 1, end)))
        ELSE Step(it, None)

\* ColIter::next: `?` returns None at the first cell that is missing,
\* before pos is advanced
ColIter_next(it, d) ==
    IF \A r \in 0..(it.rows - 1) : r * it.cols + it.pos < Len(d)
    THEN Step([it EXCEPT !.pos = it.pos + 1],
              Some([r \in 1..it.rows |-> d[(r - 1) * it.cols + it.pos + 1]]))
    ELSE Step(it, None)

\* Row mode without the `pos >= cols` test
Iter_next_unbounded(it, d) ==
    IF it.pos >= Len(d) THEN Step(it, None)
    ELSE IF it.dir = "Column"
    THEN Step([it EXCEPT !.pos = it.pos + it.cols], Get(d, it.pos))
    ELSE Step([it EXCEPT !.pos = it.pos + 1],
              Get(d, it.rows * it.cols + it.pos))

\* Iter::next
Iter_next(it, d) ==
    IF it.pos >= Len(d) THEN Step(it, None)
    ELSE IF it.dir = "Column"
    THEN Step([it EXCEPT !.pos = it.pos + it.cols], Get(d, it.pos))
    ELSE IF it.pos >= it.cols THEN Step(it, None)
    ELSE Step([it EXCEPT !.pos = it.pos + 1],
              Get(d, it.rows * it.cols + it.pos))

\* let it = spread.iter_rows();
IterRows(k) ==
    /\ result = "Ok"
    /\ cursor[k].kind = "none"
    /\ cursor' = [cursor EXCEPT ![k] = NewRowIter(sheet)]
    /\ UNCHANGED <<input, delimiter, readVars, trace, ret>>

\* let it = spread.iter_cols();
IterCols(k) ==
    /\ result = "Ok"
    /\ cursor[k].kind = "none"
    /\ cursor' = [cursor EXCEPT ![k] = NewColIter(sheet)]
    /\ UNCHANGED <<input, delimiter, readVars, trace, ret>>

\* let it = spread.iter(p, dir);
MakeIter(k) ==
    /\ result = "Ok"
    /\ cursor[k].kind = "none"
    /\ \E p \in 0..MaxPos, dir \in {"Column", "Row"} :
         /\ cursor' = [cursor EXCEPT ![k] = NewIter(sheet, p, dir)]
         /\ trace' = [trace EXCEPT ![k].arg = p]
    /\ UNCHANGED <<input, delimiter, readVars, ret>>

Advance(k, step) ==
    /\ Len(trace[k].out) < MaxCalls
    /\ cursor' = [cursor EXCEPT ![k] = step.it]
    /\ trace' = [trace EXCEPT ![k].out = Append(@, step.ret)]
    /\ UNCHANGED <<input, delimiter, readVars, ret>>

\* it.next() on a RowIter
RowIterNext(k) ==
    /\ cursor[k].kind = "RowIter"
    /\ Advance(k, RowIter_next(cursor[k], sheet.data))

\* it.next() on a ColIter
ColIterNext(k) ==
    /\ cursor[k].kind = "ColIter"
    /\ Advance(k, ColIter_next(cursor[k], sheet.data))

\* it.next() on an Iter
IterNext(k) ==
    /\ cursor[k].kind = "Iter"
    /\ Advance(k, Iter_next(cursor[k], sheet.data))

Iterate ==
    \E k \in Slots :
        \/ IterRows(k)
        \/ IterCols(k)
        \/ MakeIter(k)
        \/ RowIterNext(k)
        \/ ColIterNext(k)
        \/ IterNext(k)

-----------------------------------------------------------------------------
(* Inputs. *)

Lines ==
    { <<"x", ",", "x">>,
      <<"1", ",", "2">>,
      <<"x", "\t", "y">>,
      <<"7">>,
      <<>> }

Items(lines) == { Ok(l) : l \in lines } \cup { Failed }

SeqsUpTo(S, n) == UNION { [1..k -> S] : k \in 0..n }


InitWith(inputs, delims) ==
    /\ input \in inputs
    /\ delimiter \in delims
    /\ pc = "start"
    /\ contents = 0
    /\ headers = <<>>
    /\ data = <<>>
    /\ rows = 0
    /\ cols = 0
    /\ result = "none"
    /\ sheet = NoSheet
    /\ cursor = [k \in Slots |-> NoCursor]
    /\ trace = [k \in Slots |-> NoTrace]
    /\ ret = NoRet

Init == InitWith(SeqsUpTo(Items(Lines), MaxLines), {",", "\t"})

Next == Read \/ IndexNumeric \/ IndexSymbolic

Spec == Init /\ [][Next]_vars

\* The tables the iterators are followed on.
IterLines == { <<"x", ",", "y">>, <<"1", ",", "2">>, <<"7">> }

InitIter == InitWith(SeqsUpTo(Items(IterLines), MaxLines), {","})

NextIter == Read \/ Iterate

SpecIter == InitIter /\ [][NextIter]_vars

\* The fields type inference is followed on: each is a line of one field.
Fields ==
    { <<>>,
      <<"0">>,
      <<"7">>,
      <<"-", "7">>,
      <<"+", "5">>,
      <<"0", "0", "7">>,
      <<"-", "0">>,
      <<"2", "1", "4", "7", "4", "8", "3", "6", "4", "7">>,
      <<"2", "1", "4", "7", "4", "8", "3", "6", "4", "8">>,
      <<"-", "2", "1", "4", "7", "4", "8", "3", "6", "4", "8">>,
      <<"-", "2", "1", "4", "7", "4", "8", "3", "6", "4", "9">>,
      <<"9", "2", "2", "3", "3", "7", "2", "0", "3", "6", "8", "5", "4", "7", "7", "5", "8", "0", "7">>,
      <<"9", "2", "2", "3", "3", "7", "2", "0", "3", "6", "8", "5", "4", "7", "7", "5", "8", "0", "8">>,
      <<"+">>,
      <<"-">>,
      <<"1", ".", "5">>,
      <<".", "5">>,
      <<"5", ".">>,
      <<".">>,
      <<"1", "e", "5">>,
      <<"1", "E", "-", "3">>,
      <<"1", "e">>,
      <<"e", "5">>,
      <<"1", ".", "5", ".", "2">>,
      <<"-", "-", "1">>,
      <<"1", "x">>,
      <<" ", "1">>,
      <<"a", "b", "c">>,
      <<"i", "n", "f">>,
      <<"-", "i", "n", "f">>,
      <<"N", "a", "N">>,
      <<"i", "n", "f", "i", "n", "i", "t", "y">>,
      <<"i", "n">>,
      <<"+", "n", "a", "n">> }

\* lines of several fields
WideLines ==
    { <<"h", ",", "g", ",", "k">>,
      <<"7", ",", "2", "1", "4", "7", "4", "8", "3", "6", "4", "8", ",", "a", "b", "c">>,
      <<"-", "2", "1", "4", "7", "4", "8", "3", "6", "4", "8", ",", "1", ".", "5", ",">>,
      <<"1", ",", "2">> }

InitInfer ==
    InitWith(SeqsUpTo(Items(Fields \cup WideLines), MaxInferLines), {","})

NextInfer == Read

SpecInfer == InitInfer /\ [][NextInfer]_vars

-----------------------------------------------------------------------------
(* Properties of Spreadsheet::read. *)

\* number of fields of the header line, 0 when no header line was read
HeaderFields ==
    IF Len(input) >= 1 /\ input[1].ok
    THEN Len(Split(input[1].line, delimiter))
    ELSE 0

\* every line of the input was read without a failure
NoFailure == \A i \in 1..Len(input) : input[i].ok

\* C1: every table that read returns has data.len() = rows * cols and
\* cols = headers.len(); an empty input gives no headers, no rows and no
\* columns; a header-only input gives no rows and one column per header
\* field.
C1_TableShape ==
    result = "Ok" =>
        /\ Len(sheet.data) = sheet.rows * sheet.cols
        /\ sheet.cols = Len(sheet.headers)
        /\ input = <<>> =>
               sheet.headers = <<>> /\ sheet.rows = 0 /\ sheet.cols = 0
        /\ (Len(input) = 1 /\ input[1].ok) =>
               sheet.rows = 0 /\ sheet.cols = HeaderFields

\* a table of two rows or more, two columns or more, was returned
C1_Witness == result = "Ok" /\ sheet.rows >= 2 /\ sheet.cols >= 2

\* C2: when some data line, anywhere after the header, splits into a
\* number of fields other than the number of header fields, read returns
\* an error and no table.
C2_BadRowFails ==
    (/\ pc = "done"
     /\ Len(input) >= 1 /\ input[1].ok
     /\ \E i \in 2..Len(input) :
            /\ input[i].ok
            /\ Len(Split(input[i].line, delimiter)) # HeaderFields)
    => result = "Err"

\* C3: when the line source reported a read failure on a line that read
\* took, read returns an error.
C3_ReadFailureFails ==
    (/\ pc = "done"
     /\ \E i \in 1..contents : ~input[i].ok)
    => result = "Err"

-----------------------------------------------------------------------------
(* Properties of the index layer. *)

\* C6: on a table read without a failure, a numeric index returns the cell
\* at row * cols + col when row < rows and col < cols, and panics on every
\* other access.
C6_NumericIndexChecked ==
    (ret.op = "numeric" /\ NoFailure) =>
        ret.out = IF ret.row < sheet.rows /\ ret.col < sheet.cols
                  THEN Got(sheet.data[ret.row * sheet.cols + ret.col + 1])
                  ELSE Panic

\* the positions of the headers equal to the name asked for
Hits == { i \in 1..Len(sheet.headers) : sheet.headers[i] = ret.name }

\* C7: a symbolic index returns the cell of the given row in the first
\* column whose header equals the name; it panics when no header equals
\* the name or when row >= rows; the owned table and a reference to it
\* give the same outcome.
C7_SymbolicIndex ==
    ret.op = "symbolic" =>
        /\ ret.out =
               IF Hits # {} /\ ret.row < sheet.rows
               THEN LET first == CHOOSE i \in Hits : \A j \in Hits : i <= j
                    IN  Got(sheet.data[ret.row * sheet.cols + first])
               ELSE Panic
        /\ IndexSymbolicRef(sheet, ret.row, ret.name)
               = IndexSymbolicOwned(sheet, ret.row, ret.name)

\* a name that two headers carry was looked up on an owned table, and the
\* two columns hold different cells in that row
C7_Witness ==
    /\ ret.op = "symbolic"
    /\ ret.recv = "owned"
    /\ ret.out # Panic
    /\ \E i, j \in Hits :
           /\ i < j
           /\ sheet.data[ret.row * sheet.cols + i]
                  # sheet.data[ret.row * sheet.cols + j]

-----------------------------------------------------------------------------
(* Properties of the iteration layer. *)

\* the cells of row r (from 0) of the table
RowOf(r) == SubSeq(sheet.data, r * sheet.cols + 1, (r + 1) * sheet.cols)

\* the cells of column c (from 0) of the table
ColOf(c) == [r \in 1..sheet.rows |-> sheet.data[(r - 1) * sheet.cols + c + 1]]

\* C4: an iter_rows() cursor on a table read without a failure yields the
\* rows of the table in order, `rows` of them, and then None.
C4_RowIterYieldsRows ==
    \A k \in Slots :
        (cursor[k].kind = "RowIter" /\ NoFailure) =>
            \A i \in 1..Len(trace[k].out) :
                trace[k].out[i] =
                    IF i <= sheet.rows THEN Some(RowOf(i - 1)) ELSE None

\* C5: an iter_cols() cursor on a table read without a failure yields the
\* columns of the table in order, `cols` of them, and then None.
C5_ColIterYieldsCols ==
    \A k \in Slots :
        (cursor[k].kind = "ColIter" /\ NoFailure) =>
            \A i \in 1..Len(trace[k].out) :
                trace[k].out[i] =
                    IF i <= sheet.cols THEN Some(ColOf(i - 1)) ELSE None

\* C8: iter(p, Column) with p < cols yields the `rows` cells of column p
\* and then None; iter(p, Row) with p < rows yields the `cols` cells of
\* row p and then None; iter(p, Row) with p >= rows yields None only.
C8_IterOneLine ==
    \A k \in Slots :
        cursor[k].kind = "Iter" =>
            LET p   == trace[k].arg
                out == trace[k].out
            IN  /\ (cursor[k].dir = "Column" /\ p < sheet.cols) =>
                       \A i \in 1..Len(out) :
                           out[i] = IF i <= sheet.rows
                                    THEN Some(ColOf(p)[i])
                                    ELSE None
                /\ (cursor[k].dir = "Row" /\ p < sheet.rows) =>
                       \A i \in 1..Len(out) :
                           out[i] = IF i <= sheet.cols
                                    THEN Some(RowOf(p)[i])
                                    ELSE None
                /\ (cursor[k].dir = "Row" /\ p >= sheet.rows) =>
                       \A i \in 1..Len(out) : out[i] = None

\* a Row cursor on a row that another row follows has yielded its cells
\* and run out, on a table of two columns or more
C8_Witness ==
    \E k \in Slots :
        /\ cursor[k].kind = "Iter"
        /\ cursor[k].dir = "Row"
        /\ trace[k].arg + 1 < sheet.rows
        /\ sheet.cols >= 2
        /\ Len(trace[k].out) > sheet.cols

\* next() by the kind of the iterator
NextOf(it, d) ==
    CASE it.kind = "RowIter" -> RowIter_next(it, d)
      [] it.kind = "ColIter" -> ColIter_next(it, d)
      [] it.kind = "Iter"    -> Iter_next(it, d)

\* the results of n calls of next() on the iterator, nothing else running
RECURSIVE Alone(_, _, _)
Alone(it, d, n) ==
    IF n = 0 THEN <<>>
    ELSE <<NextOf(it, d).ret>> \o Alone(NextOf(it, d).it, d, n - 1)

\* the iterator of slot k as it was when the caller obtained it
Fresh(k) ==
    CASE cursor[k].kind = "RowIter" -> NewRowIter(sheet)
      [] cursor[k].kind = "ColIter" -> NewColIter(sheet)
      [] cursor[k].kind = "Iter" ->
             NewIter(sheet, trace[k].arg, cursor[k].dir)

C10_State ==
    (result = "Ok" /\ sheet.rows >= 1 /\ sheet.cols >= 1) =>
        \A k \in Slots :
            cursor[k].kind # "none" =>
                LET out == trace[k].out
                IN  /\ \A i, j \in 1..Len(out) :
                           (i < j /\ out[i] = None) => out[j] = None
                    /\ out = Alone(Fresh(k), sheet.data, Len(out))

\* C10: on a table with a row and a column at least, an iterator that has
\* returned None returns None on every later call; under any interleaving
\* of the calls on two iterators of one table each yields what it yields
\* alone; and the table stays as it was returned.
C10_ExhaustedAndIndependent ==
    /\ []C10_State
    /\ [][result = "Ok" => sheet' = sheet]_vars

\* two iterators of different kinds on one table: the first has returned
\* None twice after a cell, the second has yielded something
C10_Witness ==
    /\ result = "Ok" /\ sheet.rows >= 1 /\ sheet.cols >= 1
    /\ cursor[1].kind # "none" /\ cursor[2].kind # "none"
    /\ cursor[1].kind # cursor[2].kind
    /\ LET out == trace[1].out
           n   == Len(out)
       IN  n >= 3 /\ out[1] # None /\ out[n - 1] = None /\ out[n] = None
    /\ Len(trace[2].out) >= 1 /\ trace[2].out[1] # None

-----------------------------------------------------------------------------
(* Properties of type inference. *)

\* the text after one leading sign
Unsigned(f) ==
    IF f # <<>> /\ f[1] \in {"+", "-"} THEN SubSeq(f, 2, Len(f)) ELSE f

\* an integer literal: an optional sign, then digits only, one at least
IsIntLiteral(f) ==
    /\ Unsigned(f) # <<>>
    /\ \A i \in 1..Len(Unsigned(f)) : IsDigit(Unsigned(f)[i])

RECURSIVE StripZeros(_)
StripZeros(ds) ==
    IF ds # <<>> /\ ds[1] = "0" THEN StripZeros(Tail(ds)) ELSE ds

\* a <= b for two digit strings without leading zeros
DigitsLeq(a, b) ==
    \/ Len(a) < Len(b)
    \/ /\ Len(a) = Len(b)
       /\ \/ a = b
          \/ \E i \in 1..Len(a) :
                 /\ DigitVal(a[i]) < DigitVal(b[i])
                 /\ \A j \in 1..(i - 1) : a[j] = b[j]

\* the magnitude of the literal is at most max, or at most max + 1 when
\* the literal is negative (max ends in 7)
WithinSigned(f, max) ==
    LET mag == StripZeros(Unsigned(f))
        min == [max EXCEPT ![Len(max)] = "8"]
    IN  IF f[1] = "-" THEN DigitsLeq(mag, min) ELSE DigitsLeq(mag, max)

Max32 == <<"2", "1", "4", "7", "4", "8", "3", "6", "4", "7">>
Max64 == <<"9", "2", "2", "3", "3", "7", "2", "0", "3", "6",
           "8", "5", "4", "7", "7", "5", "8", "0", "7">>

\* the number a digit string denotes, with the sign s applied digit by
\* digit
RECURSIVE Denotes(_, _)
Denotes(ds, s) ==
    IF ds = <<>> THEN 0
    ELSE 10 * Denotes(SubSeq(ds, 1, Len(ds) - 1), s)
             + s * DigitVal(ds[Len(ds)])

ValueOf(f) ==
    Denotes(StripZeros(Unsigned(f)), IF f[1] = "-" THEN -1 ELSE 1)

\* digits with at most one point among them
IsMantissa(t) ==
    /\ \A i \in 1..Len(t) : IsDigit(t[i]) \/ t[i] = "."
    /\ Cardinality({ i \in 1..Len(t) : t[i] = "." }) <= 1
    /\ \E i \in 1..Len(t) : IsDigit(t[i])

\* e or E, an optional sign, then digits
IsExponent(t) ==
    /\ Len(t) >= 2
    /\ t[1] \in {"e", "E"}
    /\ Unsigned(Tail(t)) # <<>>
    /\ \A i \in 1..Len(Unsigned(Tail(t))) : IsDigit(Unsigned(Tail(t))[i])

\* a float literal: an optional sign, then a mantissa with an optional
\* exponent, or one of nan, inf, infinity in any case of letters
IsFloatLiteral(f) ==
    LET b == Unsigned(f)
    IN  /\ b # <<>>
        /\ \/ LowerAll(b) \in InfNan
           \/ \E m \in 1..Len(b) :
                  /\ IsMantissa(SubSeq(b, 1, m))
                  /\ m = Len(b) \/ IsExponent(SubSeq(b, m + 1, Len(b)))

\* the field of the input that cell (r, c) of the table was built from
FieldOf(r, c) == Split(input[r + 1].line, delimiter)[c]

CellOf(r, c) == sheet.data[(r - 1) * sheet.cols + c]

====
